---- MODULE Spec2Model ----
(***************************************************************************)
(* The event / lock subsystem of package event (src/cmd/auth.go, lines     *)
(* 309-1328).  The document store is a set of rows; every store round-trip *)
(* of an operation is one step, so that concurrent workers interleave      *)
(* between the round-trips exactly where goroutines or processes can.      *)
(*                                                                         *)
(* Time is counted in units of lockUpdateInterval (30 s).  Time 0 is the   *)
(* zero time.Time; the clock starts at 1.                                  *)
(***************************************************************************)
EXTENDS Integers, FiniteSets, Sequences, TLC

\* ---------------------------------------------------------------- bounds
MaxEvents == 3
MaxTime == 13

\* ------------------------------------------------------ program constants
\* lockUpdateInterval = 30 * time.Second: the unit of time of the model.
lockUpdateInterval == 1
\* lockExpireTimeout = 5 * time.Minute = 10 units of 30 s.
lockExpireTimeout == 10

Workers == {"w1", "w2"}
Targets == {"t1", "t2"}
\* The zero Target (Type = ""), which IsValid rejects.
NoTarget == ""
\* The empty bson.ObjectId.
NoObjId == 0
ObjIds == 1..MaxEvents

\* A nil *Event and an absent call frame.
NoEvent == [none |-> TRUE]
\* Kind names; DefaultKind is the one every create uses unless it says so.
Kinds == {"k1", "k2"}
DefaultKind == "k1"
\* The kind the block registry has a block for, and the block's error.
BlockedKind == "k3"
ErrBlocked == "event blocked"
\* Target.Type of the model's targets (t names the Target.Value).
TargetTypes == {"app", "node"}
TargetTypeOf(t) == IF t = "t2" THEN "node" ELSE "app"
\* permission.PermissionContext, and AllowedPermission with the scheme's full
\* name as the sequence of its dot-separated parts.
CtxGlobal == [CtxType |-> "global", Value |-> ""]
CtxApp == [CtxType |-> "app", Value |-> "t1"]
CtxPool == [CtxType |-> "pool", Value |-> "p1"]
DefaultAllowed == [Scheme |-> <<"app", "update">>, Contexts |-> {CtxApp}]
NoFrame == [none |-> TRUE]

\* Values of evtErr / Event.Error.
ErrExpired == "event expired, no update"
ErrCanceled == "canceled by user request"
ErrUser == "failure"

\* ------------------------------------------------------------------ data
\* eventID{Target: t}: the locked form of the id.
TargetID(t) == [Target |-> t, ObjId |-> NoObjId]
\* eventID{ObjId: u}: the archived form of the id.
ObjID(u) == [Target |-> NoTarget, ObjId |-> u]

\* eventID.GetBSON: the ObjectId when one is set, the target document
\* otherwise.  The result is the store's primary key.
GetBSON(id) ==
  IF id.ObjId # NoObjId THEN <<"ObjId", id.ObjId>> ELSE <<"Target", id.Target>>

\* The zero cancelInfo.
NoCancelInfo ==
  [Owner |-> "", StartTime |-> 0, AckTime |-> 0, Reason |-> "",
   Asked |-> FALSE, Canceled |-> FALSE]

\* The eventData literal of newEvt.
NewEventData(t, k, uniqID, disableLock, cancelable, t0) ==
  [ID |-> IF disableLock THEN ObjID(uniqID) ELSE TargetID(t),
   UniqueID |-> uniqID,
   Target |-> t,
   Kind |-> k,
   StartTime |-> t0,
   Allowed |-> DefaultAllowed,
   RemoveDate |-> 0,
   EndTime |-> 0,
   OtherCustomData |-> 0,
   LockUpdateTime |-> t0,
   Error |-> "",
   CancelInfo |-> NoCancelInfo,
   Cancelable |-> cancelable,
   Running |-> TRUE]

\* -------------------------------------------------------- store primitives
\* coll.FindId(id): the rows whose _id is the key (none or one).
FindId(st, key) == {r \in st : GetBSON(r.ID) = key}

\* A collection without the unique _id index: no insert is a duplicate.
IsDupNever(st, doc) == FALSE

\* mgo.IsDup of coll.Insert(doc): the _id index is unique.
IsDup(st, doc) == \E r \in st : GetBSON(r.ID) = GetBSON(doc.ID)

\* coll.Insert(doc) when no duplicate exists.
Insert(st, doc) == st \cup {doc}

\* coll.RemoveId(id).
RemoveId(st, key) == {r \in st : GetBSON(r.ID) # key}

\* coll.UpdateId(id, doc): replace the row whose _id is the key.
UpdateId(st, key, doc) == {r \in st : GetBSON(r.ID) # key} \cup {doc}

\* The comparison of checkIsExpired the other way round: a lock counts as
\* expired until its timeout has passed.
IsExpiredBefore(row, t) == t < row.LockUpdateTime + lockExpireTimeout

\* now.After(lastUpdate.Add(lockExpireTimeout)) of checkIsExpired.
IsExpired(row, t) == t > row.LockUpdateTime + lockExpireTimeout

\* A done() that drops the caller's error.
DoneErrorDropsCaller(e, evtErr) ==
  IF e.CancelInfo.Canceled THEN ErrCanceled ELSE e.Error

\* A done() that overlooks the acknowledged cancellation.
DoneErrorOverlooksCancel(e, evtErr) ==
  IF evtErr # "" THEN evtErr ELSE e.Error

\* The error text done() records: the caller's error, else the cancellation.
DoneError(e, evtErr) ==
  IF evtErr # "" THEN evtErr
  ELSE IF e.CancelInfo.Canceled THEN ErrCanceled
  ELSE e.Error

VARIABLES
  store,       \* the rows of collection "events"
  now,         \* the clock
  nextObjId,   \* the next value of bson.NewObjectId
  upState,     \* lockUpdater: "off", "select" (blocked in select), "update"
  set,         \* lockUpdater.spin: the registered targets
  selectTime,  \* when spin last entered its select (arms time.After)
  pc,          \* each worker's position
  h,           \* each worker's *Event handle
  nv,          \* each worker's newEvt frame
  dn,          \* each worker's done frame
  ret,         \* each worker's last result of TryCancel / AckCancel
  holders,     \* history: lock-enabled events returned by a create and not
               \* yet handed to Done/Abort, as [uid, target, since]
  ended,       \* history: the events Done/Abort has been called for
  throttlingInfo  \* the throttling specs SetThrottling has stored, by key

vars ==
  <<store, now, nextObjId, upState, set, selectTime, pc, h, nv, dn, ret,
    holders, ended, throttlingInfo>>

hist == <<holders, ended>>

updVars == <<upState, set, selectTime>>

\* A result of TryCancel / AckCancel: the error ("" is nil), AckCancel's
\* boolean, the event of the handle afterwards and the owner passed in.
NoRet == [op |-> "", err |-> "", ok |-> FALSE, uid |-> NoObjId, owner |-> ""]

ErrNotCancelable == "event is not cancelable"
ErrEventNotFound == "event not found"

\* ThrottlingSpec and the keys of the map throttlingInfo: the target type,
\* joined with the kind name when the spec has one ("" is none).
NoThrottle == [TargetType |-> "", KindName |-> "", Max |-> 0, Time |-> 0]
ThrottleKey(type, kindName) == <<type, kindName>>
ThrottleKeys ==
  {ThrottleKey(ty, kn) : ty \in TargetTypes, kn \in Kinds \cup {BlockedKind, ""}}
ErrThrottled == "event throttled"

Init ==
  /\ store = {}
  /\ now = 1
  /\ nextObjId = 1
  /\ upState = "off"
  /\ set = {}
  /\ selectTime = 0
  /\ pc = [w \in Workers |-> "idle"]
  /\ h = [w \in Workers |-> NoEvent]
  /\ nv = [w \in Workers |-> NoFrame]
  /\ dn = [w \in Workers |-> NoFrame]
  /\ ret = [w \in Workers |-> NoRet]
  /\ holders = {}
  /\ ended = {}
  /\ throttlingInfo = [key \in ThrottleKeys |-> NoThrottle]

\* ------------------------------------------------------- history helpers
\* A call begun by worker w ends the solitude of every other running create.
Disturb(w, f) ==
  [v \in Workers |->
     IF v # w /\ f[v] # NoFrame THEN [f[v] EXCEPT !.solo = FALSE] ELSE f[v]]

\* A lockUpdateTime within lockExpireTimeout of time t.
Fresh(lut, t) == t <= lut + lockExpireTimeout

\* The live holder a create on id runs against: the event of the row under
\* id when that row's lock is fresh, else none.
LiveHolder(st, id, t) ==
  IF \E r \in st : r.ID = id /\ Fresh(r.LockUpdateTime, t)
  THEN (CHOOSE r \in st : r.ID = id /\ Fresh(r.LockUpdateTime, t)).UniqueID
  ELSE NoObjId

\* held after one more step of the create: kept while the same live row is
\* still there.
StillHeld(f, st, t) ==
  IF f.held # NoObjId /\ LiveHolder(st, f.evt.ID, t) = f.held
  THEN f.held ELSE NoObjId

OthersIdle(w) == \A v \in Workers \ {w} : pc[v] = "idle"

\* ------------------------------------------------------------- New, newEvt
\* lockUpdater.start: once.Do starts spin with an empty set.
UpdaterStart ==
  IF upState = "off"
  THEN /\ upState' = "select"
       /\ set' = {}
       /\ selectTime' = now
  ELSE UNCHANGED updVars

\* getThrottling: the spec under "type_kind" when there is one, else the one
\* under "type", else nil.
getThrottling(info, t, k) ==
  IF info[ThrottleKey(TargetTypeOf(t), k)] # NoThrottle
  THEN info[ThrottleKey(TargetTypeOf(t), k)]
  ELSE info[ThrottleKey(TargetTypeOf(t), "")]

\* The Count of the throttling query: the rows of the target (and of the
\* spec's kind name when it has one) with starttime > t - spec.Time.
ThrottleCount(st, tSpec, t, at) ==
  Cardinality({r \in st :
    /\ r.Target = t
    /\ r.StartTime > at - tSpec.Time
    /\ tSpec.KindName # "" => r.Kind = tSpec.KindName})

\* The throttling test of newEvt: an active spec whose count is reached.
IsThrottled(st, info, t, k, at) ==
  LET tSpec == getThrottling(info, t, k)
  IN /\ tSpec # NoThrottle /\ tSpec.Max > 0 /\ tSpec.Time > 0
     /\ ThrottleCount(st, tSpec, t, at) >= tSpec.Max

\* New / NewInternal with valid options and kind k up to the first insert:
\* the updater is started, the throttling count taken, and the event built
\* with a fresh UniqueID and now.
NewKind(w, t, k, disableLock, cancelable) ==
  /\ pc[w] = "idle"
  /\ nextObjId <= MaxEvents
  /\ UpdaterStart
  /\ IF IsThrottled(store, throttlingInfo, t, k, now)
     THEN /\ h' = [h EXCEPT ![w] = NoEvent]
          /\ ret' = [ret EXCEPT ![w] =
               [op |-> "New", err |-> ErrThrottled, ok |-> FALSE,
                uid |-> NoObjId, owner |-> ""]]
          /\ nv' = Disturb(w, nv)
          /\ UNCHANGED <<nextObjId, pc>>
     ELSE /\ nextObjId' = nextObjId + 1
          /\ LET evt == NewEventData(t, k, nextObjId, disableLock, cancelable, now)
             IN nv' = Disturb(w, [nv EXCEPT ![w] =
                        [evt |-> evt, i |-> 0, maxRetries |-> 1, err |-> "",
                         existing |-> NoObjId, DisableLock |-> disableLock,
                         held |-> IF disableLock THEN NoObjId
                                  ELSE LiveHolder(store, evt.ID, now),
                         solo |-> OthersIdle(w), expired |-> NoObjId]])
          /\ pc' = [pc EXCEPT ![w] = "insert"]
          /\ UNCHANGED <<h, ret>>
  /\ UNCHANGED <<store, now, throttlingInfo, dn, hist>>

\* New / NewInternal with the default kind.
NewBegin(w, t, disableLock, cancelable) ==
  NewKind(w, t, DefaultKind, disableLock, cancelable)

\* SetThrottling(spec): the spec is stored under its key.
SetThrottling(spec) ==
  /\ throttlingInfo' =
       [throttlingInfo EXCEPT ![ThrottleKey(spec.TargetType, spec.KindName)] = spec]
  /\ UNCHANGED <<store, now, nextObjId, updVars, pc, h, nv, dn, ret, hist>>

\* ------------------------------------------------- New / NewInternal options
ErrNoOpts == "event opts is mandatory"
ErrNoOwner == "event owner is mandatory"
ErrNoKind == "event kind is mandatory"
ErrInvalidOwner == "event owner must not be set on internal events"
ErrInvalidKind == "event kind must not be set on internal events"
ErrNoInternalKind == "event internal kind is mandatory"
ErrNoTarget == "event target is mandatory"
ErrNoAllowed == "event allowed is mandatory"
ErrNoAllowedCancel == "event allowed cancel is mandatory for cancelable events"

\* *Opts: nil, or the fields the checks read (Owner, Kind: the pointer is
\* set; RawOwner: its name or type is set; Allowed, AllowedCancel: the scheme
\* or a context is set; Target: NoTarget has the empty type).
NilOpts ==
  [nil |-> TRUE, Owner |-> FALSE, RawOwner |-> FALSE, Kind |-> FALSE,
   InternalKind |-> "", Target |-> NoTarget, Allowed |-> FALSE,
   Cancelable |-> FALSE, AllowedCancel |-> FALSE]

\* The checks of New, in the order of the code.
ValidateNew(opts) ==
  IF opts.nil THEN ErrNoOpts
  ELSE IF ~opts.Owner /\ ~opts.RawOwner THEN ErrNoOwner
  ELSE IF ~opts.Kind THEN ErrNoKind
  ELSE ""

\* The checks of NewInternal.
ValidateNewInternal(opts) ==
  IF opts.nil THEN ErrNoOpts
  ELSE IF opts.Owner THEN ErrInvalidOwner
  ELSE IF opts.Kind THEN ErrInvalidKind
  ELSE IF opts.InternalKind = "" THEN ErrNoInternalKind
  ELSE ""

\* newEvt without the check of the target.
ValidateNewEvtAnyTarget(opts) ==
  IF opts.nil THEN ErrNoOpts
  ELSE IF ~opts.Allowed THEN ErrNoAllowed
  ELSE IF opts.Cancelable /\ ~opts.AllowedCancel THEN ErrNoAllowedCancel
  ELSE IF ~opts.Kind /\ opts.InternalKind = "" THEN ErrNoKind
  ELSE ""

\* The checks of newEvt, after updater.start().
ValidateNewEvt(opts) ==
  IF opts.nil THEN ErrNoOpts
  ELSE IF opts.Target = NoTarget THEN ErrNoTarget
  ELSE IF ~opts.Allowed THEN ErrNoAllowed
  ELSE IF opts.Cancelable /\ ~opts.AllowedCancel THEN ErrNoAllowedCancel
  ELSE IF ~opts.Kind /\ opts.InternalKind = "" THEN ErrNoKind
  ELSE ""

\* A create that returns nil and a validation error.
NewRejected(w, internal, opts, err) ==
  /\ h' = [h EXCEPT ![w] = NoEvent]
  /\ ret' = [ret EXCEPT ![w] =
       [op |-> "New", err |-> err, ok |-> FALSE, uid |-> NoObjId,
        owner |-> "", internal |-> internal, opts |-> opts]]
  /\ nv' = Disturb(w, nv)
  /\ UNCHANGED <<store, now, throttlingInfo, nextObjId, pc, dn, hist>>

\* New(opts) / NewInternal(opts): the caller's checks; then newEvt, which
\* starts the updater, checks again and goes on to build the event.
NewOpts(w, internal, opts) ==
  /\ pc[w] = "idle"
  /\ LET err == IF internal THEN ValidateNewInternal(opts) ELSE ValidateNew(opts)
     IN IF err # ""
        THEN NewRejected(w, internal, opts, err) /\ UNCHANGED updVars
        ELSE IF ValidateNewEvt(opts) # ""
        THEN NewRejected(w, internal, opts, ValidateNewEvt(opts)) /\ UpdaterStart
        ELSE NewKind(w, opts.Target, DefaultKind, FALSE, opts.Cancelable)

\* checkIsBlocked(&evt): the block registry's predicate over the event's
\* metadata; the error of the block that matches, else nil.
checkIsBlocked(evt) == IF evt.Kind = BlockedKind THEN ErrBlocked ELSE ""

\* The result of newEvt handed to the caller: the event, or nil with the
\* error the frame holds (ErrEventLocked carries f.existing).
NewReturn(w, f, evt) ==
  /\ pc' = [pc EXCEPT ![w] = "idle"]
  /\ h' = [h EXCEPT ![w] = evt]
  /\ nv' = [nv EXCEPT ![w] = NoFrame]
  /\ ret' = [ret EXCEPT ![w] = NoRet]
  /\ holders' =
       IF evt # NoEvent /\ ~f.DisableLock /\ evt.UniqueID \notin ended
       THEN holders \cup
              {[uid |-> evt.UniqueID, target |-> evt.Target,
                since |-> evt.LockUpdateTime]}
       ELSE holders
  /\ UNCHANGED ended

\* One turn of the loop `for i := 0; i < maxRetries+1; i++`: the loop test,
\* coll.Insert and the branch on its result.
NewInsert(w) ==
  /\ pc[w] = "insert"
  /\ LET f == [nv[w] EXCEPT !.held = StillHeld(nv[w], store, now)]
     IN IF ~(f.i < f.maxRetries + 1)
        THEN \* return nil, err
             /\ NewReturn(w, f, NoEvent)
             /\ UNCHANGED <<store, dn>>
        ELSE IF ~IsDup(store, f.evt)
        THEN /\ store' = Insert(store, f.evt)
             /\ IF checkIsBlocked(f.evt) # ""
                THEN \* evt.Done(err), then return nil, err
                     /\ dn' = [dn EXCEPT ![w] =
                          [e |-> f.evt, evtErr |-> checkIsBlocked(f.evt),
                           abort |-> FALSE, caller |-> "checkIsBlocked",
                           err |-> "", deferID |-> f.evt.ID]]
                     /\ nv' = [nv EXCEPT ![w] =
                          [f EXCEPT !.err = checkIsBlocked(f.evt)]]
                     /\ ended' = ended \cup {f.evt.UniqueID}
                     /\ pc' = [pc EXCEPT ![w] = "doneSend"]
                     /\ UNCHANGED <<h, ret, holders>>
                ELSE IF f.DisableLock
                THEN /\ NewReturn(w, f, f.evt)
                     /\ UNCHANGED dn
                ELSE /\ pc' = [pc EXCEPT ![w] = "addCh"]
                     /\ nv' = [nv EXCEPT ![w] = f]
                     /\ UNCHANGED <<h, dn, ret, hist>>
        ELSE /\ pc' = [pc EXCEPT ![w] =
                  IF f.i >= f.maxRetries THEN "findExisting" ELSE "checkExpired"]
             /\ nv' = [nv EXCEPT ![w] = f]
             /\ UNCHANGED <<store, h, dn, ret, hist>>
  /\ UNCHANGED <<now, throttlingInfo, nextObjId, updVars>>

\* checkIsExpired: read the row under the id; when its lock is expired call
\* its Done with the expired error (and report true), else report false.
NewCheckExpired(w) ==
  /\ pc[w] = "checkExpired"
  /\ LET f == [nv[w] EXCEPT !.held = StillHeld(nv[w], store, now)]
         found == FindId(store, GetBSON(f.evt.ID))
     IN IF \E r \in found : IsExpired(r, now)
        THEN \E r \in found :
               /\ dn' = [dn EXCEPT ![w] =
                    [e |-> r, evtErr |-> ErrExpired, abort |-> FALSE,
                     caller |-> "checkIsExpired", err |-> "",
                     deferID |-> r.ID]]
               /\ nv' = [nv EXCEPT ![w] = [f EXCEPT !.expired = r.UniqueID]]
               /\ holders' = {x \in holders : x.uid # r.UniqueID}
               /\ ended' = ended \cup {r.UniqueID}
               /\ pc' = [pc EXCEPT ![w] = "doneSend"]
        ELSE /\ pc' = [pc EXCEPT ![w] = "findExisting"]
             /\ nv' = [nv EXCEPT ![w] = f]
             /\ UNCHANGED <<dn, holders, ended>>
  /\ UNCHANGED <<store, now, throttlingInfo, nextObjId, updVars, h, ret>>

\* The body of `if i >= maxRetries || !checkIsExpired(...)`: look the holder
\* up; not found grants one more turn, found makes the error ErrEventLocked.
NewFindExisting(w) ==
  /\ pc[w] = "findExisting"
  /\ LET f == [nv[w] EXCEPT !.held = StillHeld(nv[w], store, now)]
         found == FindId(store, GetBSON(f.evt.ID))
     IN IF found = {}
        THEN nv' = [nv EXCEPT ![w] =
               [f EXCEPT !.maxRetries = f.maxRetries + 1,
                         !.err = "not found", !.existing = NoObjId,
                         !.i = f.i + 1]]
        ELSE \E r \in found :
               nv' = [nv EXCEPT ![w] =
                 [f EXCEPT !.err = "event locked", !.existing = r.UniqueID,
                           !.i = f.i + 1]]
  /\ pc' = [pc EXCEPT ![w] = "insert"]
  /\ UNCHANGED <<store, now, throttlingInfo, nextObjId, updVars, h, dn, ret, hist>>

\* `updater.addCh <- &opts.Target` and `return &evt, nil`: the send meets
\* spin's receive, which adds the target and goes on to its store update.
NewAddCh(w) ==
  /\ pc[w] = "addCh"
  /\ upState = "select"
  /\ set' = set \cup {nv[w].evt.Target}
  /\ upState' = "update"
  /\ NewReturn(w, nv[w], nv[w].evt)
  /\ UNCHANGED <<store, now, throttlingInfo, nextObjId, selectTime, dn>>

\* ------------------------------------------------ Done, DoneCustomData, Abort
\* Event.Done(evtErr) / Event.Abort() called on the worker's handle.
DoneCall(w, evtErr, abort) ==
  /\ pc[w] = "idle"
  /\ h[w] # NoEvent
  /\ dn' = [dn EXCEPT ![w] =
       [e |-> h[w], evtErr |-> evtErr, abort |-> abort, caller |-> "user",
        err |-> "", deferID |-> h[w].ID]]
  /\ holders' = {x \in holders : x.uid # h[w].UniqueID}
  /\ ended' = ended \cup {h[w].UniqueID}
  /\ nv' = Disturb(w, nv)
  /\ pc' = [pc EXCEPT ![w] = "doneSend"]
  /\ UNCHANGED <<store, now, throttlingInfo, nextObjId, updVars, h, ret>>

\* done() returns err: to the caller of Done/Abort, whose handle is the
\* receiver done() has written to, or to checkIsExpired, which drops it,
\* reports true and lets the loop take its next turn, or to newEvt after a
\* block, which drops it and returns nil and the block's error.
DoneReturn(w, f, err) ==
  /\ dn' = [dn EXCEPT ![w] = NoFrame]
  /\ IF f.caller = "user"
     THEN /\ pc' = [pc EXCEPT ![w] = "idle"]
          /\ h' = [h EXCEPT ![w] = f.e]
          /\ UNCHANGED <<nv, ret>>
     ELSE IF f.caller = "checkIsBlocked"
     THEN /\ pc' = [pc EXCEPT ![w] = "idle"]
          /\ h' = [h EXCEPT ![w] = NoEvent]
          /\ nv' = [nv EXCEPT ![w] = NoFrame]
          /\ ret' = [ret EXCEPT ![w] =
               [op |-> "New", err |-> f.evtErr, ok |-> FALSE,
                uid |-> NoObjId, owner |-> ""]]
     ELSE /\ pc' = [pc EXCEPT ![w] = "insert"]
          /\ nv' = [nv EXCEPT ![w] = [nv[w] EXCEPT !.i = nv[w].i + 1]]
          /\ UNCHANGED <<h, ret>>

\* `updater.removeCh <- &e.Target`: the send meets spin's receive, which
\* deletes the target from its set and goes on to its store update.
DoneSend(w) ==
  /\ pc[w] = "doneSend"
  /\ upState = "select"
  /\ set' = set \ {dn[w].e.Target}
  /\ upState' = "update"
  /\ pc' = [pc EXCEPT ![w] = IF dn[w].abort THEN "abortRemove" ELSE "doneFind"]
  /\ UNCHANGED <<store, now, throttlingInfo, nextObjId, selectTime, h, nv, dn, ret, hist>>

\* `if abort { return coll.RemoveId(e.ID) }`.
DoneAbort(w) ==
  /\ pc[w] = "abortRemove"
  /\ LET f == dn[w]
         key == GetBSON(f.e.ID)
     IN /\ store' = RemoveId(store, key)
        /\ DoneReturn(w, f, IF FindId(store, key) = {} THEN "not found" ELSE "")
  /\ UNCHANGED <<now, throttlingInfo, nextObjId, updVars, hist>>

\* Error, EndTime, Running are set on the receiver, then the row under e.ID
\* is read back and its OtherCustomData taken over.
DoneFind(w) ==
  /\ pc[w] = "doneFind"
  /\ LET f == dn[w]
         e1 == [f.e EXCEPT !.Error = DoneError(f.e, f.evtErr),
                           !.EndTime = now,
                           !.Running = FALSE]
         found == FindId(store, GetBSON(e1.ID))
     IN \/ /\ found = {}
           /\ dn' = [dn EXCEPT ![w] = [f EXCEPT !.e = e1]]
        \/ \E r \in found :
             dn' = [dn EXCEPT ![w] =
               [f EXCEPT !.e = [e1 EXCEPT !.OtherCustomData = r.OtherCustomData]]]
  /\ pc' = [pc EXCEPT ![w] = "doneWrite"]
  /\ UNCHANGED <<store, now, throttlingInfo, nextObjId, updVars, h, nv, ret, hist>>

\* The archived form of the receiver: `e.ID = eventID{ObjId: e.UniqueID}`.
Archived(e) == [e EXCEPT !.ID = ObjID(e.UniqueID)]

\* An id already in archived form: coll.UpdateId(e.ID, e.eventData) in place.
\* Otherwise the removal of the locked row is deferred and the archived row
\* inserted first.
DoneWrite(w) ==
  /\ pc[w] = "doneWrite"
  /\ LET f == dn[w]
         key == GetBSON(f.e.ID)
     IN IF f.e.ID.ObjId # NoObjId
        THEN IF FindId(store, key) = {}
             THEN /\ UNCHANGED store
                  /\ DoneReturn(w, f, "not found")
             ELSE /\ store' = UpdateId(store, key, f.e)
                  /\ DoneReturn(w, f, "")
        ELSE LET a == Archived(f.e)
             IN /\ IF IsDup(store, a)
                   THEN /\ UNCHANGED store
                        /\ dn' = [dn EXCEPT ![w] =
                             [f EXCEPT !.e = a, !.err = "duplicate key"]]
                   ELSE /\ store' = Insert(store, a)
                        /\ dn' = [dn EXCEPT ![w] = [f EXCEPT !.e = a, !.err = ""]]
                /\ pc' = [pc EXCEPT ![w] = "doneRemove"]
                /\ UNCHANGED <<h, nv, ret>>
  /\ UNCHANGED <<now, throttlingInfo, nextObjId, updVars, hist>>

\* The deferred coll.RemoveId(e.ID), run as done() returns: its argument is
\* the id as it was when the defer statement ran.
DoneRemove(w) ==
  /\ pc[w] = "doneRemove"
  /\ store' = RemoveId(store, GetBSON(dn[w].deferID))
  /\ DoneReturn(w, dn[w], dn[w].err)
  /\ UNCHANGED <<now, throttlingInfo, nextObjId, updVars, hist>>

\* ------------------------------------------------------------ lockUpdater
\* `case <-time.After(lockUpdateInterval)` of spin's select.
UpdaterTimer ==
  /\ upState = "select"
  /\ now >= selectTime + lockUpdateInterval
  /\ upState' = "update"
  /\ UNCHANGED <<store, now, throttlingInfo, nextObjId, set, selectTime, pc, h, nv, dn, ret,
                 hist>>

\* The rows coll.Update's selector {_id: {$in: slice}} matches.
Registered(st, s) == {r \in st : r.ID.ObjId = NoObjId /\ r.ID.Target \in s}

\* mgo's Collection.Update modifies a single document matching the
\* selector: the rows that one pass of spin may leave behind.
HeartbeatStores(st, s, t) ==
  IF Registered(st, s) = {} THEN {st}
  ELSE {(st \ {r}) \cup {[r EXCEPT !.LockUpdateTime = t]} : r \in Registered(st, s)}

\* The store update of one pass of spin, after which it selects again.
UpdaterUpdate ==
  /\ upState = "update"
  /\ store' \in HeartbeatStores(store, set, now)
  /\ upState' = "select"
  /\ selectTime' = now
  /\ UNCHANGED <<now, throttlingInfo, nextObjId, set, pc, h, nv, dn, ret, hist>>

\* lockUpdater.stop: the send on stopCh meets spin's select; spin returns
\* and once is re-armed.
UpdaterStop ==
  /\ upState = "select"
  /\ upState' = "off"
  /\ set' = {}
  /\ UNCHANGED <<store, now, throttlingInfo, nextObjId, selectTime, pc, h, nv, dn, ret, hist>>

\* -------------------------------------------------------------- the clock
\* Time passes while an updater runs.  The updater is prompt: its timer
\* fires and its pass completes before the clock moves past the deadline.
Tick ==
  /\ now < MaxTime
  /\ upState = "select"
  /\ now < selectTime + lockUpdateInterval
  /\ now' = now + 1
  /\ UNCHANGED <<store, throttlingInfo, nextObjId, updVars, pc, h, nv, dn, ret, hist>>

\* A pause longer than lockExpireTimeout while no updater runs.
Pause ==
  /\ now + lockExpireTimeout + 1 <= MaxTime
  /\ upState = "off"
  /\ now' = now + lockExpireTimeout + 1
  /\ UNCHANGED <<store, throttlingInfo, nextObjId, updVars, pc, h, nv, dn, ret, hist>>

\* ---------------------------------------------------------------- readers
\* GetRunning(target, kind): the running row under the target's id.
GetRunning(w, t) ==
  /\ pc[w] = "idle"
  /\ LET found == {r \in FindId(store, GetBSON(TargetID(t))) : r.Running}
     IN \/ /\ found = {}
           /\ h' = [h EXCEPT ![w] = NoEvent]
        \/ \E r \in found : h' = [h EXCEPT ![w] = r]
  /\ ret' = [ret EXCEPT ![w] = NoRet]
  /\ nv' = Disturb(w, nv)
  /\ UNCHANGED <<store, now, throttlingInfo, nextObjId, updVars, pc, dn, hist>>

\* GetByID(id): a row whose uniqueid is id.
GetByID(w, u) ==
  /\ pc[w] = "idle"
  /\ LET found == {r \in store : r.UniqueID = u}
     IN \/ /\ found = {}
           /\ h' = [h EXCEPT ![w] = NoEvent]
        \/ \E r \in found : h' = [h EXCEPT ![w] = r]
  /\ ret' = [ret EXCEPT ![w] = NoRet]
  /\ nv' = Disturb(w, nv)
  /\ UNCHANGED <<store, now, throttlingInfo, nextObjId, updVars, pc, dn, hist>>

\* ------------------------------------------------------------ cancellation
\* The guard of TryCancel and AckCancel on the handle's own fields.
CanCancel(e) == e.Cancelable /\ e.Running

\* A selector without the cancelinfo.asked condition.
FindAskedAny(st, id, asked) == FindId(st, GetBSON(id))

\* The rows the selector {_id: e.ID, cancelinfo.asked: asked} matches.
FindAsked(st, id, asked) ==
  {r \in FindId(st, GetBSON(id)) : r.CancelInfo.Asked = asked}

\* The cancelInfo literal TryCancel sets.
AskedInfo(owner, reason, t) ==
  [Owner |-> owner, StartTime |-> t, AckTime |-> 0, Reason |-> reason,
   Asked |-> TRUE, Canceled |-> FALSE]

\* Event.TryCancel(reason, owner): one conditional find-and-modify, whose
\* new document (ReturnNew) replaces the handle's data.
TryCancel(w, reason, owner) ==
  /\ pc[w] = "idle"
  /\ h[w] # NoEvent
  /\ IF ~CanCancel(h[w])
     THEN /\ ret' = [ret EXCEPT ![w] =
               [op |-> "TryCancel", err |-> ErrNotCancelable, ok |-> FALSE,
                uid |-> h[w].UniqueID, owner |-> owner]]
          /\ UNCHANGED <<store, h>>
     ELSE IF FindAsked(store, h[w].ID, FALSE) = {}
     THEN /\ ret' = [ret EXCEPT ![w] =
               [op |-> "TryCancel", err |-> ErrEventNotFound, ok |-> FALSE,
                uid |-> h[w].UniqueID, owner |-> owner]]
          /\ UNCHANGED <<store, h>>
     ELSE \E r \in FindAsked(store, h[w].ID, FALSE) :
            LET q == [r EXCEPT !.CancelInfo = AskedInfo(owner, reason, now)]
            IN /\ store' = (store \ {r}) \cup {q}
               /\ h' = [h EXCEPT ![w] = q]
               /\ ret' = [ret EXCEPT ![w] =
                    [op |-> "TryCancel", err |-> "", ok |-> FALSE,
                     uid |-> q.UniqueID, owner |-> owner]]
  /\ nv' = Disturb(w, nv)
  /\ UNCHANGED <<now, throttlingInfo, nextObjId, updVars, pc, dn, hist>>

\* Event.AckCancel(): one conditional find-and-modify on asked = true.
AckCancel(w) ==
  /\ pc[w] = "idle"
  /\ h[w] # NoEvent
  /\ IF ~CanCancel(h[w]) \/ FindAsked(store, h[w].ID, TRUE) = {}
     THEN /\ ret' = [ret EXCEPT ![w] =
               [op |-> "AckCancel", err |-> "", ok |-> FALSE,
                uid |-> h[w].UniqueID, owner |-> ""]]
          /\ UNCHANGED <<store, h>>
     ELSE \E r \in FindAsked(store, h[w].ID, TRUE) :
            LET q == [r EXCEPT !.CancelInfo.AckTime = now,
                               !.CancelInfo.Canceled = TRUE]
            IN /\ store' = (store \ {r}) \cup {q}
               /\ h' = [h EXCEPT ![w] = q]
               /\ ret' = [ret EXCEPT ![w] =
                    [op |-> "AckCancel", err |-> "", ok |-> TRUE,
                     uid |-> q.UniqueID, owner |-> ""]]
  /\ nv' = Disturb(w, nv)
  /\ UNCHANGED <<now, throttlingInfo, nextObjId, updVars, pc, dn, hist>>

\* ------------------------------------------------------ SetOtherCustomData
\* Event.SetOtherCustomData(data): coll.UpdateId(e.ID, {$set: {othercustomdata:
\* data}}) on the row under the handle's id; the handle itself is not changed.
SetOtherCustomData(w, data) ==
  /\ pc[w] = "idle"
  /\ h[w] # NoEvent
  /\ LET found == FindId(store, GetBSON(h[w].ID))
     IN IF found = {}
        THEN /\ ret' = [ret EXCEPT ![w] =
                  [op |-> "SetOtherCustomData", err |-> "not found",
                   ok |-> FALSE, uid |-> h[w].UniqueID, owner |-> ""]]
             /\ UNCHANGED store
        ELSE /\ store' = (store \ found) \cup
                  {[r EXCEPT !.OtherCustomData = data] : r \in found}
             /\ ret' = [ret EXCEPT ![w] =
                  [op |-> "SetOtherCustomData", err |-> "",
                   ok |-> FALSE, uid |-> h[w].UniqueID, owner |-> ""]]
  /\ nv' = Disturb(w, nv)
  /\ UNCHANGED <<now, throttlingInfo, nextObjId, updVars, pc, h, dn, hist>>

\* ------------------------------------------------------ RawInsert, Migrate
\* Event.RawInsert on a receiver the caller built for target t with UniqueID
\* u, already ended: the id is set to the archived form and the row inserted.
RawInsert(w, t, u) ==
  /\ pc[w] = "idle"
  /\ u \in {NoObjId, nextObjId}
  /\ u = nextObjId => nextObjId <= MaxEvents
  /\ nextObjId' = IF u = nextObjId THEN nextObjId + 1 ELSE nextObjId
  /\ LET e == [NewEventData(t, DefaultKind, u, TRUE, FALSE, now) EXCEPT
                 !.ID = ObjID(u), !.EndTime = now, !.Running = FALSE]
     IN /\ store' = IF IsDup(store, e) THEN store ELSE Insert(store, e)
        /\ h' = [h EXCEPT ![w] = e]
  /\ ret' = [ret EXCEPT ![w] = NoRet]
  /\ nv' = Disturb(w, nv)
  /\ UNCHANGED <<now, throttlingInfo, updVars, pc, dn, hist>>

\* The query and the callback Migrate is given: the rows not yet migrated,
\* and the transformation that marks them.
MigrateQuery(st) == {r \in st : r.OtherCustomData = 0}

MigrateFn(e) == [e EXCEPT !.OtherCustomData = 1]

\* Migrate: iter.Next decodes a row into evt and the callback transforms it.
MigrateNext(w) ==
  /\ pc[w] = "idle"
  /\ \E r \in MigrateQuery(store) : h' = [h EXCEPT ![w] = MigrateFn(r)]
  /\ pc' = [pc EXCEPT ![w] = "migrate"]
  /\ ret' = [ret EXCEPT ![w] = NoRet]
  /\ nv' = Disturb(w, nv)
  /\ UNCHANGED <<store, now, throttlingInfo, nextObjId, updVars, dn, hist>>

\* Migrate: coll.UpdateId(evt.ID, evt.eventData), then the next row or the
\* return.
MigrateUpdate(w) ==
  /\ pc[w] = "migrate"
  /\ store' = IF FindId(store, GetBSON(h[w].ID)) = {} THEN store
              ELSE UpdateId(store, GetBSON(h[w].ID), h[w])
  /\ pc' = [pc EXCEPT ![w] = "idle"]
  /\ UNCHANGED <<now, throttlingInfo, nextObjId, updVars, h, nv, dn, ret, hist>>

\* ------------------------------------------------------------ GetTargetType
ErrInvalidTargetType == "invalid event target type"

\* The values of the TargetType constants.
KnownTargetTypes ==
  {"app", "node", "container", "pool", "service", "service-instance", "team",
   "user", "iaas", "role", "platform", "plan", "node-container",
   "install-host", "event-block"}

\* GetTargetType(t): the cases of its switch, else the empty type and
\* ErrInvalidTargetType.
GetTargetType(t) ==
  IF t \in {"app", "node", "container", "pool", "service", "service-instance",
            "team", "user"}
  THEN [type |-> t, err |-> ""]
  ELSE [type |-> "", err |-> ErrInvalidTargetType]

\* A call of GetTargetType by w.
GetTargetTypeCall(w, t) ==
  /\ pc[w] = "idle"
  /\ ret' = [ret EXCEPT ![w] =
       [op |-> "GetTargetType", err |-> GetTargetType(t).err, ok |-> FALSE,
        uid |-> NoObjId, owner |-> "", tag |-> t,
        type |-> GetTargetType(t).type]]
  /\ nv' = Disturb(w, nv)
  /\ UNCHANGED <<store, now, throttlingInfo, nextObjId, updVars, pc, h, dn, hist>>

\* -------------------------------------------------------- Filter, List
\* A nil slice or pointer, and one that holds items / a value.
Nil == [nil |-> TRUE, items |-> {}]
Some(items) == [nil |-> FALSE, items |-> items]
NilBool == [nil |-> TRUE, val |-> FALSE]
SomeBool(b) == [nil |-> FALSE, val |-> b]

\* The regex "^" + scheme with its dots escaped: the scheme is a prefix.
IsPrefixOf(p, sch) == Len(p) <= Len(sch) /\ SubSeq(sch, 1, Len(p)) = p

\* toQuery: the clauses of permOrBlock, one per scheme of permMap; a global
\* context among the scheme's contexts drops the condition on contexts.
PermOrBlock(perms) ==
  {[scheme |-> sch,
    anyCtx |-> \E p \in perms : p.Scheme = sch /\ p.Context.CtxType = "global",
    ctxs |-> {p.Context : p \in {x \in perms : x.Scheme = sch}}] :
     sch \in {p.Scheme : p \in perms}}

\* Filter.toQuery: the map it returns, key by key.  The permission block and
\* the allowedTargets block are both stored under "$or", the later one
\* replacing the earlier; an empty allowedTargets yields errInvalidQuery.
toQuery(f) ==
  [invalid |-> ~f.AllowedTargets.nil /\ f.AllowedTargets.items = {},
   or |-> IF ~f.AllowedTargets.nil
          THEN [kind |-> "targets", perms |-> {}, targets |-> f.AllowedTargets.items]
          ELSE IF ~f.Permissions.nil
          THEN [kind |-> "perms", perms |-> PermOrBlock(f.Permissions.items),
                targets |-> {}]
          ELSE [kind |-> "none", perms |-> {}, targets |-> {}],
   targetType |-> f.TargetType,
   targetValue |-> f.TargetValue,
   kindName |-> f.KindName,
   running |-> f.Running,
   removedateAbsent |-> ~f.IncludeRemoved,
   errorOnly |-> f.ErrorOnly]

\* The store's evaluation of the query on a row.
QueryMatches(q, r) ==
  /\ q.or.kind = "perms" =>
       \E c \in q.or.perms :
         /\ IsPrefixOf(c.scheme, r.Allowed.Scheme)
         /\ c.anyCtx \/ r.Allowed.Contexts \cap c.ctxs # {}
  /\ q.or.kind = "targets" =>
       \E at \in q.or.targets :
         /\ TargetTypeOf(r.Target) = at.Type
         /\ at.Values.nil \/ r.Target \in at.Values.items
  /\ q.targetType # "" => TargetTypeOf(r.Target) = q.targetType
  /\ q.targetValue # "" => r.Target = q.targetValue
  /\ q.kindName # "" => r.Kind = q.kindName
  /\ ~q.running.nil => r.Running = q.running.val
  /\ q.removedateAbsent => r.RemoveDate = 0
  /\ q.errorOnly => r.Error # ""

\* List(filter): the rows the query finds; errInvalidQuery gives none.
List(w, f) ==
  /\ pc[w] = "idle"
  /\ LET q == toQuery(f)
     IN ret' = [ret EXCEPT ![w] =
          [op |-> "List", err |-> "", ok |-> FALSE, uid |-> NoObjId,
           owner |-> "", filter |-> f,
           events |-> IF q.invalid THEN {}
                      ELSE {r \in store : QueryMatches(q, r)}]]
  /\ nv' = Disturb(w, nv)
  /\ UNCHANGED <<store, now, throttlingInfo, nextObjId, updVars, pc, h, dn, hist>>

\* MarkAsRemoved(target): UpdateAll sets removedate to now on every row of
\* the target that has none.
MarkAsRemoved(w, t) ==
  /\ pc[w] = "idle"
  /\ LET marked == {r \in store : r.Target = t /\ r.RemoveDate = 0}
     IN /\ store' = (store \ marked) \cup
                      {[r EXCEPT !.RemoveDate = now] : r \in marked}
        /\ ret' = [ret EXCEPT ![w] =
             [op |-> "MarkAsRemoved", err |-> "", ok |-> FALSE,
              uid |-> NoObjId, owner |-> "",
              marked |-> {r.UniqueID : r \in marked}]]
  /\ nv' = Disturb(w, nv)
  /\ UNCHANGED <<now, throttlingInfo, nextObjId, updVars, pc, h, dn, hist>>

\* ------------------------------------------------------- specifications
\* The steps every operation shares once it has been called.
Steps(w) ==
  \/ NewInsert(w)
  \/ NewCheckExpired(w)
  \/ NewFindExisting(w)
  \/ NewAddCh(w)
  \/ DoneSend(w)
  \/ DoneAbort(w)
  \/ DoneFind(w)
  \/ DoneWrite(w)
  \/ DoneRemove(w)


\* The lock manager on one target: lock-enabled creates, Done, Abort, the
\* updater's passes and its stop, and pauses long enough for a lock to expire.
LockTarget == "t1"

Next ==
  \/ \E w \in Workers : NewBegin(w, LockTarget, FALSE, FALSE)
  \/ \E w \in Workers : DoneCall(w, "", FALSE)
  \/ \E w \in Workers : DoneCall(w, "", TRUE)
  \/ \E w \in Workers : Steps(w)
  \/ UpdaterUpdate
  \/ UpdaterStop
  \/ Pause

Spec == Init /\ [][Next]_vars

\* The heartbeat on two targets: lock-enabled creates, the expired takeover,
\* the updater's timer and passes, and the clock in units of the interval.
TargetOf == [w \in Workers |-> IF w = "w1" THEN "t1" ELSE "t2"]

NextHeartbeat ==
  \/ \E w \in Workers : NewBegin(w, TargetOf[w], FALSE, FALSE)
  \/ \E w \in Workers : NewInsert(w)
  \/ \E w \in Workers : NewCheckExpired(w)
  \/ \E w \in Workers : NewFindExisting(w)
  \/ \E w \in Workers : NewAddCh(w)
  \/ \E w \in Workers : DoneSend(w)
  \/ \E w \in Workers : DoneFind(w)
  \/ \E w \in Workers : DoneWrite(w)
  \/ \E w \in Workers : DoneRemove(w)
  \/ UpdaterTimer
  \/ UpdaterUpdate
  \/ Tick

SpecHeartbeat == Init /\ [][NextHeartbeat]_vars

\* The bound the heartbeat is to keep: while spin waits in its select, every
\* running row of a registered target was renewed less than
\* lockExpireTimeout + lockUpdateInterval ago.
HeartbeatBound ==
  upState = "select" =>
    \A r \in Registered(store, set) :
      r.Running => now - r.LockUpdateTime < lockExpireTimeout + lockUpdateInterval

\* C3: every pass of the updater sets lockUpdateTime = now on the locked row
\* of every registered target, so that between passes a running, registered
\* event has now - lockUpdateTime < lockExpireTimeout + lockUpdateInterval.
C3_Heartbeat ==
  /\ [][(upState = "update" /\ upState' = "select") =>
          \A r \in Registered(store, set) :
            \E q \in store' : q.ID = r.ID /\ q.LockUpdateTime = now]_vars
  /\ []HeartbeatBound

\* The cancellation protocol on one target: cancelable or plain events, with
\* or without the lock, asked and acked through the creator's handle or one
\* read back from the store, and completed with or without an error.
OwnerOf == [w \in Workers |-> IF w = "w1" THEN "alice" ELSE "bob"]
MaxCancelEvents == 2
Executor == "w1"

NextCancel ==
  \/ \E dl \in BOOLEAN : \E c \in BOOLEAN :
       nextObjId <= MaxCancelEvents /\ NewBegin(Executor, LockTarget, dl, c)
  \/ NewInsert(Executor)
  \/ NewCheckExpired(Executor)
  \/ NewFindExisting(Executor)
  \/ NewAddCh(Executor)
  \/ \E w \in Workers : GetRunning(w, LockTarget)
  \/ \E w \in Workers : \E u \in ObjIds : GetByID(w, u)
  \/ \E w \in Workers : TryCancel(w, "stop", OwnerOf[w])
  \/ AckCancel(Executor)
  \/ \E e \in {"", ErrUser} : DoneCall(Executor, e, FALSE)
  \/ DoneSend(Executor)
  \/ DoneFind(Executor)
  \/ DoneWrite(Executor)
  \/ DoneRemove(Executor)
  \/ UpdaterUpdate

SpecCancel == Init /\ [][NextCancel]_vars

\* All writers of the collection on one target: creates with or without the
\* lock, Done, Abort, the takeover after a pause, RawInsert, Migrate, the
\* cancellation calls and the updater.
MaxRowEvents == 2

Operator == "w2"

NextRows ==
  \/ \E w \in Workers :
       nextObjId <= MaxRowEvents /\ NewBegin(w, LockTarget, FALSE, TRUE)
  \/ DoneCall(Executor, "", FALSE)
  \/ DoneCall(Executor, "", TRUE)
  \/ \E w \in Workers : Steps(w)
  \/ \E u \in {NoObjId} \cup ObjIds :
       /\ u # NoObjId => nextObjId <= MaxRowEvents
       /\ RawInsert(Operator, LockTarget, u)
  \/ MigrateNext(Operator)
  \/ MigrateUpdate(Operator)
  \/ TryCancel(Operator, "stop", OwnerOf[Operator])
  \/ UpdaterUpdate
  \/ (\A w \in Workers : pc[w] = "idle") /\ UpdaterStop
  \/ Pause

SpecRows == Init /\ [][NextRows]_vars

\* Throttled creates on one target: one throttling spec, for the target type
\* or for one kind of it, is set before the first create; creates of either
\* kind with or without the lock, Done, and the clock.
MaxThrottleTime == 3
MaxThrottleEvents == 2
ThrottleSpecs ==
  {[TargetType |-> "app", KindName |-> kn, Max |-> 1, Time |-> 2] :
     kn \in {"", "k2"}}

NextThrottle ==
  \/ \E spec \in ThrottleSpecs :
       /\ \A key \in ThrottleKeys : throttlingInfo[key] = NoThrottle
       /\ nextObjId = 1
       /\ SetThrottling(spec)
  \/ \E w \in Workers : \E k \in Kinds : \E dl \in BOOLEAN :
       nextObjId <= MaxThrottleEvents /\ NewKind(w, LockTarget, k, dl, FALSE)
  \/ \E w \in Workers : NewInsert(w)
  \/ \E w \in Workers : NewCheckExpired(w)
  \/ \E w \in Workers : NewFindExisting(w)
  \/ \E w \in Workers : NewAddCh(w)
  \/ \E w \in Workers : DoneCall(w, "", FALSE)
  \/ \E w \in Workers : DoneSend(w)
  \/ \E w \in Workers : DoneFind(w)
  \/ \E w \in Workers : DoneWrite(w)
  \/ \E w \in Workers : DoneRemove(w)
  \/ UpdaterTimer
  \/ UpdaterUpdate
  \/ now < MaxThrottleTime /\ Tick

SpecThrottle == Init /\ [][NextThrottle]_vars

\* Events with and without the lock on one target: the executor creates and
\* completes lock-enabled events, the operator creates lock-disabled events
\* and completes them with Done or Abort.
NextCoexist ==
  \/ NewBegin(Executor, LockTarget, FALSE, FALSE)
  \/ NewBegin(Operator, LockTarget, TRUE, FALSE)
  \/ \E w \in Workers : DoneCall(w, "", FALSE)
  \/ DoneCall(Operator, "", TRUE)
  \/ \E w \in Workers : Steps(w)
  \/ UpdaterUpdate

SpecCoexist == Init /\ [][NextCoexist]_vars

\* otherCustomData written while an event runs: the executor creates events
\* with or without the lock and completes them; either worker reads a handle
\* back and writes otherCustomData through the handle it has.
MaxDataEvents == 2
OtherData == {1, 2}

NextOtherData ==
  \/ \E dl \in BOOLEAN :
       nextObjId <= MaxDataEvents /\ NewBegin(Executor, LockTarget, dl, FALSE)
  \/ NewInsert(Executor)
  \/ NewCheckExpired(Executor)
  \/ NewFindExisting(Executor)
  \/ NewAddCh(Executor)
  \/ \E u \in ObjIds : GetByID(Operator, u)
  \/ \E w \in Workers : \E d \in OtherData : SetOtherCustomData(w, d)
  \/ DoneCall(Executor, "", FALSE)
  \/ DoneSend(Executor)
  \/ DoneFind(Executor)
  \/ DoneWrite(Executor)
  \/ DoneRemove(Executor)
  \/ UpdaterUpdate

SpecOtherData == Init /\ [][NextOtherData]_vars

\* Events that are never completed, on one target: lock-enabled creates, the
\* takeover of an expired lock, the updater with its timer and the clock, and
\* the death of the process (the updater stops and time passes unobserved).
\* The process dies only while the clock has room for its lock to expire.
\* The updater, the clock and every call in progress keep going.
MaxAbandonEvents == 2

NextAbandon ==
  \/ \E w \in Workers :
       nextObjId <= MaxAbandonEvents /\ NewBegin(w, LockTarget, FALSE, FALSE)
  \/ \E w \in Workers : NewInsert(w)
  \/ \E w \in Workers : NewCheckExpired(w)
  \/ \E w \in Workers : NewFindExisting(w)
  \/ \E w \in Workers : NewAddCh(w)
  \/ \E w \in Workers : DoneSend(w)
  \/ \E w \in Workers : DoneFind(w)
  \/ \E w \in Workers : DoneWrite(w)
  \/ \E w \in Workers : DoneRemove(w)
  \/ UpdaterTimer
  \/ UpdaterUpdate
  \/ Tick
  \/ /\ \A w \in Workers : pc[w] = "idle"
     /\ now + lockExpireTimeout + 1 <= MaxTime
     /\ UpdaterStop
  \/ Pause

SpecAbandon ==
  /\ Init /\ [][NextAbandon]_vars
  /\ WF_vars(UpdaterTimer) /\ WF_vars(UpdaterUpdate) /\ WF_vars(Tick)
  /\ WF_vars(Pause)
  /\ \A w \in Workers :
       WF_vars(NewInsert(w) \/ NewCheckExpired(w) \/ NewFindExisting(w)
               \/ NewAddCh(w) \/ DoneSend(w) \/ DoneFind(w) \/ DoneWrite(w)
               \/ DoneRemove(w))

\* Queries over a collection of events with different targets, permissions
\* and outcomes; the operator lists it with every filter of Filters.
QueryRow(u, t, allowed, running, err) ==
  [NewEventData(t, DefaultKind, u, TRUE, FALSE, 1) EXCEPT
     !.Allowed = allowed, !.Running = running, !.Error = err]

QueryRows ==
  {QueryRow(1, "t1", DefaultAllowed, TRUE, ""),
   QueryRow(2, "t2", [Scheme |-> <<"node", "update">>, Contexts |-> {CtxPool}],
            FALSE, ErrUser),
   QueryRow(3, "t1", [Scheme |-> <<"app", "deploy">>, Contexts |-> {CtxPool}],
            FALSE, "")}

Filters ==
  [Permissions : {Nil,
                  Some({[Scheme |-> <<"app">>, Context |-> CtxGlobal]}),
                  Some({[Scheme |-> <<"app", "update">>, Context |-> CtxApp]}),
                  Some({[Scheme |-> <<"node">>, Context |-> CtxPool],
                        [Scheme |-> <<"app", "deploy">>, Context |-> CtxApp]})},
   AllowedTargets : {Nil, Some({}),
                     Some({[Type |-> "app", Values |-> Nil]}),
                     Some({[Type |-> "node", Values |-> Some({"t2"})],
                           [Type |-> "app", Values |-> Some({"t2"})]})},
   TargetType : {"", "app"},
   TargetValue : {"", "t1"},
   KindName : {"", "k1"},
   Running : {NilBool, SomeBool(TRUE), SomeBool(FALSE)},
   IncludeRemoved : {FALSE},
   ErrorOnly : BOOLEAN]

InitQuery ==
  /\ store \in SUBSET QueryRows
  /\ now = 1
  /\ nextObjId = 1
  /\ upState = "off"
  /\ set = {}
  /\ selectTime = 0
  /\ pc = [w \in Workers |-> "idle"]
  /\ h = [w \in Workers |-> NoEvent]
  /\ nv = [w \in Workers |-> NoFrame]
  /\ dn = [w \in Workers |-> NoFrame]
  /\ ret = [w \in Workers |-> NoRet]
  /\ holders = {}
  /\ ended = {}
  /\ throttlingInfo = [key \in ThrottleKeys |-> NoThrottle]

NextQuery == \E f \in Filters : List(Operator, f)

SpecQuery == InitQuery /\ [][NextQuery]_vars

\* Creates with every combination of options: the operator calls New and
\* NewInternal with options valid or not, while the executor creates,
\* completes and aborts events and the updater runs.
MaxOptsEvents == 2

OptsSet ==
  {NilOpts} \cup
  {o \in [nil : {FALSE}, Owner : BOOLEAN, RawOwner : BOOLEAN, Kind : BOOLEAN,
          InternalKind : {"", "ik"}, Target : {LockTarget, NoTarget},
          Allowed : BOOLEAN, Cancelable : BOOLEAN, AllowedCancel : BOOLEAN] :
     /\ o.RawOwner => ~o.Owner
     /\ o.AllowedCancel => o.Cancelable
     /\ o.InternalKind # "" => ~o.Kind}

NextOpts ==
  \/ \E internal \in BOOLEAN, opts \in OptsSet :
       nextObjId <= MaxOptsEvents /\ NewOpts(Operator, internal, opts)
  \/ nextObjId <= MaxOptsEvents /\ NewBegin(Executor, LockTarget, FALSE, FALSE)
  \/ DoneCall(Executor, "", FALSE)
  \/ DoneCall(Operator, "", TRUE)
  \/ \E w \in Workers : Steps(w)
  \/ UpdaterUpdate
  \/ UpdaterStop

SpecOpts == Init /\ [][NextOpts]_vars

\* GetTargetType on the known tags and on other strings.
OtherTags == {"", "App", "apps", "event", "node-", "volume"}

NextTargetType ==
  \E w \in Workers, t \in KnownTargetTypes \cup OtherTags : GetTargetTypeCall(w, t)

SpecTargetType == Init /\ [][NextTargetType]_vars

\* Creates that the block registry rejects: either worker creates events on
\* the target, of the default or of the blocked kind, with the lock; the
\* operator also creates blocked ones without it; events are completed, the
\* updater runs and is stopped, and locks expire.
MaxBlockEvents == 3

NextBlock ==
  \/ \E w \in Workers : \E k \in {DefaultKind, BlockedKind} :
       nextObjId <= MaxBlockEvents /\ NewKind(w, LockTarget, k, FALSE, FALSE)
  \/ nextObjId <= MaxBlockEvents
       /\ NewKind(Operator, LockTarget, BlockedKind, TRUE, FALSE)
  \/ \E w \in Workers : DoneCall(w, "", FALSE)
  \/ DoneCall(Executor, "", TRUE)
  \/ \E w \in Workers : Steps(w)
  \/ UpdaterUpdate
  \/ UpdaterStop
  \/ Pause

SpecBlock == Init /\ [][NextBlock]_vars

\* Removal of a target's events: the executor creates events on the target,
\* with and without the lock, completes them and lists the events; the
\* operator marks the target's events as removed.
MaxRemovedEvents == 2

NoFilter ==
  [Permissions |-> Nil, AllowedTargets |-> Nil, TargetType |-> "",
   TargetValue |-> "", KindName |-> "", Running |-> NilBool,
   IncludeRemoved |-> FALSE, ErrorOnly |-> FALSE]

NextRemoved ==
  \/ \E dl \in BOOLEAN :
       nextObjId <= MaxRemovedEvents /\ NewBegin(Executor, LockTarget, dl, FALSE)
  \/ \E abort \in BOOLEAN : DoneCall(Executor, "", abort)
  \/ Steps(Executor)
  \/ \E b \in BOOLEAN : List(Executor, [NoFilter EXCEPT !.IncludeRemoved = b])
  \/ MarkAsRemoved(Operator, LockTarget)
  \/ UpdaterUpdate

SpecRemoved == Init /\ [][NextRemoved]_vars

\* The hand-off to the updater: the executor creates events with and without
\* the lock; the operator inserts an event directly and loads events from
\* the store; both complete or abort the events they hold; the updater
\* makes its passes and is stopped.  Every call in progress and the updater
\* take their steps whenever they can, again and again.
MaxHandoffEvents == 2

NextHandoff ==
  \/ \E dl \in BOOLEAN :
       nextObjId <= MaxHandoffEvents /\ NewBegin(Executor, LockTarget, dl, FALSE)
  \/ nextObjId <= MaxHandoffEvents /\ RawInsert(Operator, LockTarget, nextObjId)
  \/ \E u \in ObjIds : GetByID(Operator, u)
  \/ \E w \in Workers : \E abort \in BOOLEAN : DoneCall(w, "", abort)
  \/ \E w \in Workers : Steps(w)
  \/ UpdaterUpdate
  \/ UpdaterStop

SpecHandoff ==
  /\ Init /\ [][NextHandoff]_vars
  /\ SF_vars(UpdaterUpdate)
  /\ \A w \in Workers : SF_vars(Steps(w))

\* ------------------------------------------------------------------ claims
\* The steps of worker w's create, from the call to the return, those of the
\* done() that checkIsExpired calls included.
CreateStep(w) ==
  /\ pc'[w] # pc[w]
  /\ \/ pc[w] = "idle" /\ pc'[w] = "insert"
     \/ pc[w] \in {"insert", "checkExpired", "findExisting", "addCh"}
     \/ /\ pc[w] \in {"doneSend", "doneFind", "doneWrite", "doneRemove"}
        /\ dn[w].caller # "user"

\* The step on which worker w's create returns to its caller.
CreateReturns(w) == pc[w] \in {"insert", "addCh"} /\ pc'[w] = "idle"

\* The lockUpdateTime last written for a holder: that of its locked row,
\* or, when the row is gone, the one it was created with.
HolderLockTime(x) ==
  IF \E r \in store : r.UniqueID = x.uid /\ r.ID = TargetID(x.target)
  THEN (CHOOSE r \in store : r.UniqueID = x.uid /\ r.ID = TargetID(x.target)).LockUpdateTime
  ELSE x.since

\* C1: between the return of a successful lock-enabled create on a target and
\* that event's Done/Abort or the expiry of its lock, no other lock-enabled
\* create on the target returns an event: of the events returned and not yet
\* completed, at most one per target has a lock that is not expired.
C1_OneLiveHolder ==
  \A x \in holders : \A y \in holders :
    (x.target = y.target /\ Fresh(HolderLockTime(x), now)
       /\ Fresh(HolderLockTime(y), now)) => x = y

\* C2: a lock-enabled create that finds the locked row of its target expired,
\* with no other worker active during the call, returns the event, which is
\* then the row under the target's id; the expired event is exactly one row,
\* in archived form, not running, with an end time and the expired error.
C2_ExpiredTakeover ==
  [][\A w \in Workers :
       (CreateReturns(w) /\ nv[w].solo /\ nv[w].expired # NoObjId) =>
         /\ h'[w] # NoEvent
         /\ FindId(store', GetBSON(TargetID(nv[w].evt.Target))) = {h'[w]}
         /\ \E r \in store' :
              /\ {q \in store' : q.UniqueID = nv[w].expired} = {r}
              /\ r.ID = ObjID(nv[w].expired)
              /\ ~r.Running
              /\ r.EndTime # 0
              /\ r.Error = ErrExpired]_vars

\* C2 witness: a create that took an expired event over, alone, is about to
\* return its event.
C2_Witness ==
  \E w \in Workers :
    /\ pc[w] = "addCh" /\ upState = "select"
    /\ nv[w].solo /\ nv[w].expired # NoObjId

\* C4: a lock-enabled create that runs against the same live locked row from
\* call to return fails with ErrEventLocked carrying that row's event, and no
\* step of it changes the store or registers a target.
C4_LockConflict ==
  [][\A w \in Workers :
       (CreateStep(w) /\ nv'[w] # NoFrame /\ nv'[w].held # NoObjId
          => store' = store /\ set' \subseteq set)
       /\ (CreateReturns(w) /\ StillHeld(nv[w], store, now) # NoObjId
          => /\ h'[w] = NoEvent
             /\ nv[w].err = "event locked"
             /\ nv[w].existing = nv[w].held
             /\ store' = store /\ set' = set)]_vars

\* C4 witness: a create has met the same live holder on both of its turns and
\* is about to return ErrEventLocked.
C4_Witness ==
  \E w \in Workers :
    /\ pc[w] = "insert" /\ nv[w].i = 2
    /\ nv[w].held # NoObjId /\ nv[w].err = "event locked"
    /\ StillHeld(nv[w], store, now) # NoObjId

\* C6: a row that is not running is in archived form, a row in locked form is
\* running, and every event returned by a lock-enabled create and not yet
\* completed or expired is the row under its target's id.
C6_Lifecycle ==
  /\ \A r \in store :
       /\ ~r.Running => r.ID.ObjId # NoObjId
       /\ r.ID.ObjId = NoObjId => r.Running
  /\ \A x \in holders :
       \E r \in store : r.UniqueID = x.uid /\ r.ID = TargetID(x.target)

\* C7: no two rows of the store carry the same uniqueId.
C7_UniqueIdUnique ==
  \A r1 \in store : \A r2 \in store : r1.UniqueID = r2.UniqueID => r1 = r2

\* C5: for every target, at most one row of the store has the locked id form
\* of that target.
C5_OneRowPerTarget ==
  \A r1 \in store : \A r2 \in store :
    (r1.ID.ObjId = NoObjId /\ r2.ID.ObjId = NoObjId
       /\ r1.ID.Target = r2.ID.Target) => r1 = r2

\* C5 witness: two creates race for the target: one has inserted its locked
\* row, the other's insert has met it.
C5_Witness ==
  /\ \E r \in store : r.ID = TargetID(LockTarget)
  /\ \E w \in Workers : \E v \in Workers :
       pc[w] = "addCh" /\ pc[v] = "checkExpired"

\* The step on which worker w's TryCancel / AckCancel returns.
TryCancelReturns(w) == ret'[w] # ret[w] /\ ret'[w].op = "TryCancel"
AckCancelReturns(w) == ret'[w] # ret[w] /\ ret'[w].op = "AckCancel"

\* The handle of worker w addresses its own event: the row under its id, if
\* any, is the row of the handle's event.
OwnRow(w) ==
  \A r \in store : r.ID = h[w].ID => r.UniqueID = h[w].UniqueID

\* The rows under the id of w's handle, by their asked flag.
RowsAsked(w, asked) ==
  {r \in store : r.ID = h[w].ID /\ r.CancelInfo.Asked = asked}

\* C8: a TryCancel on a handle that is not cancelable or not running fails
\* with ErrNotCancelable; otherwise it succeeds exactly when the event's row
\* is not yet asked, and then records its own owner, reason and start time
\* with asked = true in that row alone; every failing call leaves the store
\* as it is, and the request recorded for a running event is never replaced.
C8_TryCancelAtomic ==
  [][/\ \A w \in Workers :
          (TryCancelReturns(w) /\ OwnRow(w)) =>
            /\ ret'[w].err = ErrNotCancelable
                 <=> ~(h[w].Cancelable /\ h[w].Running)
            /\ ret'[w].err = ""
                 <=> (h[w].Cancelable /\ h[w].Running /\ RowsAsked(w, FALSE) # {})
            /\ ret'[w].err \in {"", ErrNotCancelable, ErrEventNotFound}
            /\ ret'[w].err = "" =>
                 \E r \in RowsAsked(w, FALSE) :
                   store' = (store \ {r}) \cup
                     {[r EXCEPT !.CancelInfo =
                         [Owner |-> ret'[w].owner, StartTime |-> now,
                          AckTime |-> 0, Reason |-> "stop",
                          Asked |-> TRUE, Canceled |-> FALSE]]}
            /\ ret'[w].err # "" => store' = store
     /\ \A r \in store : \A q \in store' :
          (r.Running /\ q.Running /\ r.CancelInfo.Asked
             /\ q.ID = r.ID /\ q.UniqueID = r.UniqueID) =>
            /\ q.CancelInfo.Asked
            /\ q.CancelInfo.Owner = r.CancelInfo.Owner
            /\ q.CancelInfo.Reason = r.CancelInfo.Reason
            /\ q.CancelInfo.StartTime = r.CancelInfo.StartTime]_vars

\* C8 witness: two workers have called TryCancel on the same running event;
\* one has succeeded and its owner is recorded, the other was told not found.
C8_Witness ==
  \E w \in Workers : \E v \in Workers :
    /\ ret[w].op = "TryCancel" /\ ret[w].err = ""
    /\ ret[v].op = "TryCancel" /\ ret[v].err = ErrEventNotFound
    /\ ret[v].uid = ret[w].uid
    /\ \E r \in store :
         /\ r.UniqueID = ret[w].uid /\ r.Running
         /\ r.CancelInfo.Asked /\ r.CancelInfo.Owner = ret[w].owner

\* The write of done() is about to succeed for the frame f: the archived row
\* is not there yet, or the row updated in place is.
WriteSucceeds(f) ==
  IF f.e.ID.ObjId # NoObjId
  THEN \E r \in store : r.ID = f.e.ID
  ELSE ~\E r \in store : r.ID = ObjID(f.e.UniqueID)

\* C9: AckCancel on a running cancelable event returns true exactly when the
\* event's row is asked, and then sets canceled and the ack time in that row;
\* otherwise it changes nothing.  A Done through the handle that was acked
\* writes the event's archived row with the caller's error or, when that is
\* nil, "canceled by user request", and with the cancelInfo of the running row.
C9_AckAndDone ==
  [][\A w \in Workers :
       /\ (AckCancelReturns(w) /\ CanCancel(h[w]) /\ OwnRow(w)) =>
            /\ ret'[w].ok <=> RowsAsked(w, TRUE) # {}
            /\ ret'[w].ok =>
                 \E r \in RowsAsked(w, TRUE) :
                   store' = (store \ {r}) \cup
                     {[r EXCEPT !.CancelInfo.Canceled = TRUE,
                                !.CancelInfo.AckTime = now]}
            /\ ~ret'[w].ok => store' = store
       /\ (/\ pc[w] = "doneWrite" /\ pc'[w] # "doneWrite"
           /\ dn[w].caller = "user"
           /\ ret[w].op = "AckCancel" /\ ret[w].ok
           /\ ret[w].uid = dn[w].e.UniqueID
           /\ WriteSucceeds(dn[w])) =>
            \E q \in store' :
              /\ q.ID = ObjID(dn[w].e.UniqueID)
              /\ q.UniqueID = dn[w].e.UniqueID
              /\ ~q.Running
              /\ q.Error = IF dn[w].evtErr = "" THEN ErrCanceled
                           ELSE dn[w].evtErr
              /\ q.CancelInfo.Asked /\ q.CancelInfo.Canceled
              /\ \A r \in store :
                   (r.UniqueID = q.UniqueID /\ r.Running) =>
                     q.CancelInfo = r.CancelInfo]_vars

\* C9 witness: an event asked by the other worker and acked by this one has
\* been completed with Done(nil) and is archived as canceled.
C9_Witness ==
  \E w \in Workers : \E r \in store :
    /\ ret[w].op = "AckCancel" /\ ret[w].ok /\ ret[w].uid = r.UniqueID
    /\ pc[w] = "idle" /\ h[w] # NoEvent /\ h[w].UniqueID = r.UniqueID
    /\ r.ID = ObjID(r.UniqueID) /\ ~r.Running
    /\ r.Error = ErrCanceled
    /\ r.CancelInfo.Canceled /\ r.CancelInfo.Owner = OwnerOf[Operator]

\* C10: in every row canceled implies asked, and the asked or canceled flag
\* of a row is only ever set while that row is running.
C10_CancelOnlyRunning ==
  /\ [](\A r \in store : r.CancelInfo.Canceled => r.CancelInfo.Asked)
  /\ [][\A r \in store : \A q \in store' :
          (/\ q.ID = r.ID /\ q.UniqueID = r.UniqueID
           /\ \/ q.CancelInfo.Asked /\ ~r.CancelInfo.Asked
              \/ q.CancelInfo.Canceled /\ ~r.CancelInfo.Canceled) =>
            r.Running]_vars

\* The events a throttling spec counts on target t that started in the window
\* (t0, t0 + spec.Time].
StartedIn(tSpec, t, t0) ==
  {r.UniqueID : r \in {q \in store :
     /\ q.Target = t
     /\ tSpec.KindName # "" => q.Kind = tSpec.KindName
     /\ q.StartTime > t0 /\ q.StartTime <= t0 + tSpec.Time}}

\* C11: under an active throttling spec, the events on the target (of the
\* spec's kind when it has one) started within any window of the spec's
\* length are never more than the spec's max.
C11_Throttle ==
  \A key \in ThrottleKeys :
    LET tSpec == throttlingInfo[key]
    IN (tSpec.Max > 0 /\ tSpec.Time > 0) =>
         \A t0 \in 0..MaxTime :
           Cardinality(StartedIn(tSpec, LockTarget, t0)) <= tSpec.Max

\* The rows in locked form.
LockRows(st) == {r \in st : r.ID.ObjId = NoObjId}

\* C12: no step of creating or completing a lock-disabled event changes a row
\* in locked form or the set of targets registered with the updater, and a
\* lock-enabled event returned and not yet completed keeps its locked row and
\* stays registered.
C12_LockDisabledCoexist ==
  /\ [][(pc'[Operator] # pc[Operator] \/ h'[Operator] # h[Operator]) =>
          (LockRows(store') = LockRows(store) /\ set' = set)]_vars
  /\ [](\A x \in holders :
          /\ \E r \in store : r.UniqueID = x.uid /\ r.ID = TargetID(x.target)
          /\ x.target \in set)

\* The step on which the Done that worker w called returns without error.
DoneReturns(w) ==
  /\ pc[w] \in {"doneWrite", "doneRemove"} /\ pc'[w] = "idle"
  /\ dn[w].caller = "user"
  /\ IF pc[w] = "doneRemove" THEN dn[w].err = ""
     ELSE \E r \in store : r.ID = dn[w].e.ID

\* C13: when Done returns, the archived row of its event carries the
\* otherCustomData that the event's running row held up to that moment, that
\* is, the last one written to it with success.
C13_OtherDataPreserved ==
  [][\A w \in Workers :
       DoneReturns(w) =>
         \A r \in store :
           (r.UniqueID = dn[w].e.UniqueID /\ r.Running) =>
             \E q \in store' :
               /\ q.ID = ObjID(r.UniqueID) /\ q.UniqueID = r.UniqueID
               /\ q.OtherCustomData = r.OtherCustomData]_vars

\* The event u has been returned by a lock-enabled create and is not completed.
Abandoned(u) == \E x \in holders : x.uid = u

\* The lock of event u is found expired: its locked row is older than
\* lockExpireTimeout, or a creator has already taken it over.
Expired(u) ==
  \/ \E r \in LockRows(store) : r.UniqueID = u /\ IsExpired(r, now)
  \/ ~Abandoned(u)

FilterMatches(f, r) ==
  /\ ~f.Permissions.nil =>
       \E p \in f.Permissions.items :
         /\ IsPrefixOf(p.Scheme, r.Allowed.Scheme)
         /\ p.Context.CtxType = "global" \/ p.Context \in r.Allowed.Contexts
  /\ ~f.AllowedTargets.nil =>
       \E at \in f.AllowedTargets.items :
         /\ TargetTypeOf(r.Target) = at.Type
         /\ at.Values.nil \/ r.Target \in at.Values.items
  /\ f.TargetType # "" => TargetTypeOf(r.Target) = f.TargetType
  /\ f.TargetValue # "" => r.Target = f.TargetValue
  /\ f.KindName # "" => r.Kind = f.KindName
  /\ ~f.Running.nil => r.Running = f.Running.val
  /\ ~f.IncludeRemoved => r.RemoveDate = 0
  /\ f.ErrorOnly => r.Error # ""

\* C15: every event List(filter) returns satisfies all the constraints
\* present in the filter at once.
C15_QuerySound ==
  \A w \in Workers :
    ret[w].op = "List" =>
      \A r \in ret[w].events : FilterMatches(ret[w].filter, r)

ValidationErrors ==
  {ErrNoOpts, ErrNoOwner, ErrNoKind, ErrInvalidOwner, ErrInvalidKind,
   ErrNoInternalKind, ErrNoTarget, ErrNoAllowed, ErrNoAllowedCancel}

\* The errors that correspond to what is wrong with the options.
DefectErrors(internal, opts) ==
  IF opts.nil THEN {ErrNoOpts}
  ELSE {e \in ValidationErrors :
          \/ e = ErrNoOwner /\ ~internal /\ ~opts.Owner /\ ~opts.RawOwner
          \/ e = ErrNoKind /\ ~internal /\ ~opts.Kind
          \/ e = ErrInvalidOwner /\ internal /\ opts.Owner
          \/ e = ErrInvalidKind /\ internal /\ opts.Kind
          \/ e = ErrNoInternalKind /\ internal /\ opts.InternalKind = ""
          \/ e = ErrNoTarget /\ opts.Target = NoTarget
          \/ e = ErrNoAllowed /\ ~opts.Allowed
          \/ e = ErrNoAllowedCancel /\ opts.Cancelable /\ ~opts.AllowedCancel}

Rejected(r) == r.op = "New" /\ r.err \in ValidationErrors

\* C16: a create that rejects its options returns an error that corresponds
\* to them and no event, and changes neither a row of the store nor the
\* updater's registered set; options with an invalid target never make an
\* event.
C16_ValidationNoSideEffects ==
  /\ [][\A w \in Workers :
         (pc[w] = "idle" /\ ret'[w] # ret[w] /\ Rejected(ret'[w])) =>
           /\ ret'[w].err \in DefectErrors(ret'[w].internal, ret'[w].opts)
           /\ h'[w] = NoEvent
           /\ pc'[w] = "idle"
           /\ store' = store
           /\ set' = set]_vars
  /\ [](/\ \A r \in store : r.Target # NoTarget
        /\ \A w \in Workers : nv[w] # NoFrame => nv[w].evt.Target # NoTarget)

C16_Witness ==
  /\ Rejected(ret[Operator])
  /\ ret[Operator].err = ErrNoTarget
  /\ store # {}
  /\ set # {}
  /\ upState # "off"

\* C17: GetTargetType returns the matching type and no error for each of
\* the fifteen known tags, and InvalidTargetType for every other string.
C17_GetTargetType ==
  \A w \in Workers :
    ret[w].op = "GetTargetType" =>
      IF ret[w].tag \in KnownTargetTypes
      THEN ret[w].type = ret[w].tag /\ ret[w].err = ""
      ELSE ret[w].err = ErrInvalidTargetType

\* A step of the Done that worker w's create runs on the expired row it found.
ExpiredDoneStep(w) ==
  /\ pc'[w] # pc[w]
  /\ pc[w] \in {"doneSend", "doneFind", "doneWrite", "doneRemove"}
  /\ dn[w].caller = "checkIsExpired"

\* C18: when creators race on the same expired locked row, the Done each of
\* them runs on it deletes or alters no row of another event, in particular
\* not the locked row another creator has inserted on the target meanwhile.
C18_ExpiredObserversSafe ==
  [][\A w \in Workers :
       (/\ ExpiredDoneStep(w)
        /\ \E v \in Workers \ {w} :
             nv[v] # NoFrame /\ nv[v].expired = dn[w].e.UniqueID) =>
         \A r \in store : r.UniqueID # dn[w].e.UniqueID => r \in store']_vars

\* A step of a Done or Abort that worker w has called on its handle.
UserDoneStep(w) ==
  /\ pc'[w] # pc[w]
  /\ pc[w] \in {"doneSend", "abortRemove", "doneFind", "doneWrite", "doneRemove"}
  /\ dn[w].caller = "user"

\* The event of w's handle has been completed: by an earlier Done through
\* the handle, or archived as expired by a peer while the row under its
\* target belongs to a newer event.
AlreadyDone(w) ==
  /\ h[w] # NoEvent
  /\ \/ ~h[w].Running
     \/ /\ h[w].ID = TargetID(h[w].Target)
        /\ \E r \in store :
             r.ID = ObjID(h[w].UniqueID) /\ ~r.Running /\ r.Error = ErrExpired
        /\ \E q \in store :
             q.ID = TargetID(h[w].Target) /\ q.UniqueID # h[w].UniqueID

\* C19: a Done or Abort through a handle whose event has already been
\* completed changes no stored row and deletes none.
C19_DoneTwiceNoOp ==
  [][\A w \in Workers : (UserDoneStep(w) /\ AlreadyDone(w)) => store' = store]_vars

\* C20: Done of a locked event deletes the locked row before it inserts the
\* archived row: between the two store operations no row under the target
\* is that event's, and the locked and the archived row of one event are
\* never in the store together.
C20_DeleteThenInsert ==
  /\ \A w \in Workers :
       (pc[w] = "doneRemove" /\ dn[w].err = "") =>
         ~\E r \in store :
            r.ID = TargetID(dn[w].e.Target) /\ r.UniqueID = dn[w].e.UniqueID
  /\ \A r \in store : \A q \in store :
       (r.ID = TargetID(r.Target) /\ q.ID = ObjID(r.UniqueID)) =>
         q.UniqueID # r.UniqueID

\* C21: a create makes at most two insert attempts, the second one only
\* after it found the row on the target expired and called its Done; a
\* duplicate on a live row is followed by no other insert.
C21_BoundedCreate ==
  \A w \in Workers :
    (pc[w] = "insert" /\ nv[w].i < nv[w].maxRetries + 1) =>
      \/ nv[w].i = 0
      \/ nv[w].i = 1 /\ nv[w].expired # NoObjId

\* C22: what a successful TryCancel has recorded is not overwritten by
\* another writer: every row of the event, the archived one included,
\* carries the cancellation asked by the caller TryCancel reported success to.
C22_DisjointWriters ==
  \A v \in Workers : \A r \in store :
    (ret[v].op = "TryCancel" /\ ret[v].err = "" /\ r.UniqueID = ret[v].uid) =>
      r.CancelInfo.Asked /\ r.CancelInfo.Owner = ret[v].owner

\* C23: the write-back of Migrate replaces only the row of the event it has
\* read: no row of another event is changed or removed by it.
C23_MigrateOwnRow ==
  [][\A w \in Workers :
       (pc[w] = "migrate" /\ pc'[w] = "idle") =>
         \A r \in store : r.UniqueID # h[w].UniqueID => r \in store']_vars

\* The step on which a create that the block check rejected returns.
BlockedReturns(w) ==
  /\ pc[w] \in {"doneWrite", "doneRemove"}
  /\ dn[w].caller = "checkIsBlocked"
  /\ pc'[w] = "idle"

\* C24: a create the block check rejects returns the block error and no
\* event; on its return no row under the target is this event's, the target
\* is not registered with the updater on its account, and the event is one
\* archived row, not running, whose error is the block error.
C24_BlockedRolledBack ==
  /\ [][\A w \in Workers :
       BlockedReturns(w) =>
         LET u == dn[w].e.UniqueID
             t == dn[w].e.Target
         IN /\ h'[w] = NoEvent
            /\ ret'[w].op = "New" /\ ret'[w].err = ErrBlocked
            /\ ~\E r \in store' : r.ID = TargetID(t) /\ r.UniqueID = u
            /\ nv[w].solo => t \notin set'
            /\ \E r \in store' :
                 /\ {q \in store' : q.UniqueID = u} = {r}
                 /\ r.ID = ObjID(u)
                 /\ ~r.Running
                 /\ r.Error = ErrBlocked]_vars
  /\ [][\A w \in Workers :
         (pc'[w] # pc[w] /\ dn[w] # NoFrame /\ dn[w].caller = "checkIsBlocked") =>
           set' \subseteq set]_vars

\* C25: TryCancel and AckCancel through a handle modify only the stored row
\* of the handle's event, and leave the handle the handle of that event.
C25_CancelOwnEvent ==
  [][\A w \in Workers :
       (h[w] # NoEvent /\ (TryCancelReturns(w) \/ AckCancelReturns(w))) =>
         /\ \A r \in store : r.UniqueID # h[w].UniqueID => r \in store'
         /\ h'[w].UniqueID = h[w].UniqueID]_vars

\* C26: an event that MarkAsRemoved has marked is in no later List without
\* includeRemoved, also when it is completed by Done after it was marked.
C26_RemovalPermanent ==
  [][\A v \in Workers : \A w \in Workers :
       (/\ ret[w].op = "MarkAsRemoved"
        /\ ret'[v] # ret[v]
        /\ ret'[v].op = "List"
        /\ ~ret'[v].filter.IncludeRemoved) =>
         \A r \in ret'[v].events : r.UniqueID \notin ret[w].marked]_vars

\* C27: the send of the target to the updater always completes: a Done or
\* Abort at its send on removeCh, and a create at its send on addCh,
\* eventually gets past it.
C27_HandoffCompletes ==
  \A w \in Workers : \A p \in {"doneSend", "addCh"} :
    (pc[w] = p) ~> (pc[w] # p)

====
